---------------------------- MODULE Spec2Model ----------------------------
(***************************************************************************)
(* Inventory costing core of the ERP: the movement ledger, the movement    *)
(* producers that append to it, and the read models derived from it        *)
(* (calculate_inventory_valuation, generate_reorder_suggestions).          *)
(***************************************************************************)
EXTENDS Integers, Sequences, FiniteSets, TLC

(***************************************************************************)
(* Numbers.                                                                *)
(*                                                                         *)
(* Quantities and unit costs are DecimalFields; the model draws them from  *)
(* the integers, on which Decimal addition and multiplication are exact.   *)
(* running_value becomes a proper decimal fraction as soon as the replay   *)
(* divides, so it is a decimal floating-point number [m, e] = m * 10^e,    *)
(* kept canonical (m not divisible by 10; zero is [0, 0]) so that equality *)
(* of records is numerical equality.  Python rounds every Decimal result   *)
(* to the context precision, ROUND_HALF_EVEN; the model rounds the same    *)
(* way to DecPrec significant digits.  float(x) is modelled the same way   *)
(* with the smaller precision FloatPrec: a float keeps fewer digits than a *)
(* Decimal.                                                                *)
(***************************************************************************)
DecPrec == 5

FloatPrec == 3

Abs(n) == IF n < 0 THEN -n ELSE n

Sgn(n) == IF n < 0 THEN -1 ELSE IF n = 0 THEN 0 ELSE 1

Max2(a, b) == IF a >= b THEN a ELSE b

Min2(a, b) == IF a <= b THEN a ELSE b

RECURSIVE NumDigits(_)
NumDigits(n) == IF n < 10 THEN 1 ELSE 1 + NumDigits(n \div 10)

RECURSIVE Canon(_, _)
Canon(m, e) ==
    IF m = 0 THEN [m |-> 0, e |-> 0]
    ELSE IF Abs(m) % 10 = 0 THEN Canon(Sgn(m) * (Abs(m) \div 10), e + 1)
    ELSE [m |-> m, e |-> e]

Zero == [m |-> 0, e |-> 0]

OfInt(n) == Canon(n, 0)

Neg(x) == [m |-> -x.m, e |-> x.e]

\* s * a * 10^e rounded half-even to prec significant digits; sticky says
\* that a non-zero part below 10^e was already cut off a.
RoundHE(s, a, e, sticky, prec) ==
    IF a = 0 THEN Zero
    ELSE LET k == NumDigits(a) - prec
         IN  IF k <= 0 THEN Canon(s * a, e)
             ELSE LET q    == a \div (10 ^ k)
                      r    == a % (10 ^ k)
                      half == 5 * (10 ^ (k - 1))
                      up   == \/ r > half
                              \/ r = half /\ (sticky \/ q % 2 = 1)
                  IN  Canon(s * (IF up THEN q + 1 ELSE q), e + k)

Round(x, prec) == RoundHE(Sgn(x.m), Abs(x.m), x.e, FALSE, prec)

\* The coefficient of x at exponent t.  Digits of x below 10^t are cut off
\* and remembered in a last digit that is neither 0 nor 5, which is all a
\* later rounding can tell about them.
AlignTo(x, t) ==
    IF x.e >= t THEN x.m * (10 ^ (x.e - t))
    ELSE LET d == t - x.e
             a == Abs(x.m)
             q == IF d >= NumDigits(a) THEN 0 ELSE a \div (10 ^ d)
         IN  Sgn(x.m) * (IF q % 5 = 0 THEN q + 1 ELSE q)

\* x + y, correctly rounded to prec digits (Decimal.__add__, float +).
Add(x, y, prec) ==
    IF x.m = 0 THEN Round(y, prec)
    ELSE IF y.m = 0 THEN Round(x, prec)
    ELSE LET hx == x.e + NumDigits(Abs(x.m)) - 1
             hy == y.e + NumDigits(Abs(y.m)) - 1
             t  == Max2(Min2(x.e, y.e), Max2(hx, hy) - prec - 2)
             s  == AlignTo(x, t) + AlignTo(y, t)
         IN  RoundHE(Sgn(s), Abs(s), t, FALSE, prec)

Sub(x, y, prec) == Add(x, Neg(y), prec)

\* x * y, correctly rounded (Decimal.__mul__, float *).
Mul(x, y, prec) ==
    RoundHE(Sgn(x.m) * Sgn(y.m), Abs(x.m) * Abs(y.m), x.e + y.e, FALSE, prec)

\* Long division of r * 10^e (r < b, quotient digits so far in q) until the
\* quotient has prec + 1 digits or the division comes out even.
RECURSIVE LongDiv(_, _, _, _, _, _)
LongDiv(s, q, r, b, e, prec) ==
    IF r = 0 \/ q >= 10 ^ prec
    THEN RoundHE(s, q, e, r # 0, prec)
    ELSE LongDiv(s, q * 10 + ((r * 10) \div b), (r * 10) % b, b, e - 1, prec)

\* x / y for y # 0, correctly rounded (Decimal.__truediv__, float /).
Div(x, y, prec) ==
    LET a == Abs(x.m)
        b == Abs(y.m)
    IN  LongDiv(Sgn(x.m) * Sgn(y.m), a \div b, a % b, b, x.e - y.e, prec)

\* float(x) of a Decimal or of an int.
FloatOf(x) == Round(x, FloatPrec)

\* x < y
Less(x, y) == Sub(x, y, DecPrec).m < 0

\* round(x, places) for places >= 0: half-even at the digit 10^-places.
RoundPlaces(x, places) ==
    IF x.e >= -places THEN x
    ELSE LET k    == -places - x.e
             a    == Abs(x.m)
             q    == IF k > NumDigits(a) THEN 0 ELSE a \div (10 ^ k)
             r    == IF k > NumDigits(a) THEN a ELSE a % (10 ^ k)
             half == 5 * (10 ^ (k - 1))
             up   == IF k > NumDigits(a) THEN FALSE
                     ELSE r > half \/ (r = half /\ q % 2 = 1)
         IN  Canon(Sgn(x.m) * (IF up THEN q + 1 ELSE q), -places)

(***************************************************************************)
(* The weighted-average replay of calculate_inventory_valuation.           *)
(***************************************************************************)
MovementTypes ==
    {"receipt", "issue", "transfer_in", "transfer_out", "adjustment",
     "production_receipt", "production_issue"}

InflowTypes == {"receipt", "production_receipt", "transfer_in", "adjustment"}

\* The accumulator before the first movement.
EmptyRunning == [running_qty |-> 0, running_value |-> Zero]

\* running_value / running_qty if running_qty > 0 else 0
AverageCost(acc) ==
    IF acc.running_qty > 0
    THEN Div(acc.running_value, OfInt(acc.running_qty), DecPrec)
    ELSE Zero

\* The loop body with the directions confused: inflows taken out of stock,
\* everything else put in.
ReplayMovementWithSignsSwapped(acc, movement) ==
    IF movement.movement_type \in InflowTypes
    THEN [running_qty   |-> acc.running_qty - movement.quantity,
          running_value |->
              Sub(acc.running_value,
                  Mul(OfInt(movement.quantity), OfInt(movement.unit_cost), DecPrec),
                  DecPrec)]
    ELSE [running_qty   |-> acc.running_qty + movement.quantity,
          running_value |->
              Add(acc.running_value,
                  Mul(OfInt(movement.quantity), AverageCost(acc), DecPrec),
                  DecPrec)]

\* The loop body with outflows valued at the movement's own unit_cost.
ReplayMovementAtMovementCost(acc, movement) ==
    IF movement.movement_type \in InflowTypes
    THEN [running_qty   |-> acc.running_qty + movement.quantity,
          running_value |->
              Add(acc.running_value,
                  Mul(OfInt(movement.quantity), OfInt(movement.unit_cost), DecPrec),
                  DecPrec)]
    ELSE IF acc.running_qty >= movement.quantity
         THEN [running_qty   |-> acc.running_qty - movement.quantity,
               running_value |->
                   Sub(acc.running_value,
                       Mul(OfInt(movement.quantity), OfInt(movement.unit_cost),
                           DecPrec),
                       DecPrec)]
         ELSE acc

\* The loop body with the stock revalued at the cost of the latest inflow.
ReplayMovementAtLastCost(acc, movement) ==
    IF movement.movement_type \in InflowTypes
    THEN [running_qty   |-> acc.running_qty + movement.quantity,
          running_value |->
              Mul(OfInt(acc.running_qty + movement.quantity),
                  OfInt(movement.unit_cost), DecPrec)]
    ELSE IF acc.running_qty >= movement.quantity
         THEN [running_qty   |-> acc.running_qty - movement.quantity,
               running_value |->
                   Sub(acc.running_value,
                       Mul(OfInt(movement.quantity), AverageCost(acc), DecPrec),
                       DecPrec)]
         ELSE acc

\* The loop body taking every outflow, covered or not.
ReplayMovementAllowingNegative(acc, movement) ==
    IF movement.movement_type \in InflowTypes
    THEN [running_qty   |-> acc.running_qty + movement.quantity,
          running_value |->
              Add(acc.running_value,
                  Mul(OfInt(movement.quantity), OfInt(movement.unit_cost), DecPrec),
                  DecPrec)]
    ELSE [running_qty   |-> acc.running_qty - movement.quantity,
          running_value |->
              Sub(acc.running_value,
                  Mul(OfInt(movement.quantity), AverageCost(acc), DecPrec),
                  DecPrec)]

\* One pass through the body of the loop over the movements.
ReplayMovement(acc, movement) ==
    IF movement.movement_type \in InflowTypes
    THEN LET new_qty   == acc.running_qty + movement.quantity
             new_value ==
                 Add(acc.running_value,
                     Mul(OfInt(movement.quantity), OfInt(movement.unit_cost), DecPrec),
                     DecPrec)
         IN  [running_qty |-> new_qty, running_value |-> new_value]
    ELSE IF acc.running_qty >= movement.quantity
         THEN LET outflow_value ==
                      Mul(OfInt(movement.quantity), AverageCost(acc), DecPrec)
              IN  [running_qty   |-> acc.running_qty - movement.quantity,
                   running_value |-> Sub(acc.running_value, outflow_value, DecPrec)]
         ELSE acc

\* The loop: the accumulator after the movements s[1], ..., s[Len(s)].
RECURSIVE ReplayAll(_)
ReplayAll(s) ==
    IF s = <<>> THEN EmptyRunning
    ELSE ReplayMovement(ReplayAll(SubSeq(s, 1, Len(s) - 1)), s[Len(s)])

\* The three computed fields of a product's valuation_data entry.
CostingSnapshot(acc) ==
    [current_qty  |-> FloatOf(OfInt(acc.running_qty)),
     average_cost |-> FloatOf(AverageCost(acc)),
     total_value  |-> FloatOf(acc.running_value)]

(***************************************************************************)
(* The database: tenants, products, warehouses and the movement ledger.    *)
(***************************************************************************)
MaxMovements == 3

MaxTime == 2

TicksPerDay == 2

DaysPerMonth == 2

Tenants == {"T1", "T2"}

ProductIds == {1, 2, 3}

Warehouses == {"W1", "W2", "W3"}

WarehouseTenant == [w \in Warehouses |-> IF w = "W3" THEN "T2" ELSE "T1"]

\* The requests of the model come from tenant T1; the API posts receipts and
\* issues to the first warehouse, dated at the start or the end of time.
RequestTenants == {"T1"}

QuantityInputs == {-1, 2}

UnitCostInputs == {3}

ActualQuantityInputs == {0, 1}

ApiMovementTypes == {"receipt", "issue"}

ApiWarehouses == {"W1"}

VARIABLES
    products,          \* Product rows by id
    movements,         \* StockMovement rows in id order
    purchase_orders,   \* PurchaseOrder rows by id, each with its lines
    now,               \* timezone.now()
    resp,              \* what the last call returned
    work_orders,       \* WorkOrder rows by id
    in_flight,         \* per request in progress: the handler and the row it loaded
    thread_local,      \* per worker thread: the tenant attribute of _thread_local
    last_reads         \* what the request tenant's reads last returned, and from which data

vars == <<products, movements, purchase_orders, now, resp,
          work_orders, in_flight, thread_local, last_reads>>

\* The state outside the ledger, its products and its purchase orders.
workflow == <<work_orders, in_flight, thread_local, last_reads>>

\* movement_date__date, and the %Y%m of a timestamp.
DateOf(ts) == ts \div TicksPerDay

MonthOf(ts) == DateOf(ts) \div DaysPerMonth

Times == 0..MaxTime

Dates == {DateOf(ts) : ts \in Times}

TenantProducts(tenant) == {p \in ProductIds : products[p].tenant = tenant}

TenantWarehouses(tenant) == {w \in Warehouses : WarehouseTenant[w] = tenant}

\* The filter without its is_active condition.
AllProducts(tenant) == {p \in ProductIds : products[p].tenant = tenant}

\* Product.objects.filter(tenant=tenant, is_active=True)
ActiveProducts(tenant) ==
    {p \in ProductIds : products[p].tenant = tenant /\ products[p].is_active}

RECURSIVE SumQuantity(_)
SumQuantity(ids) ==
    IF ids = {} THEN 0
    ELSE LET i == CHOOSE j \in ids : TRUE
         IN  movements[i].quantity + SumQuantity(ids \ {i})

\* aggregate(Sum('quantity'))['quantity__sum'] or 0, per warehouse
WarehouseStock(tenant, product, warehouse) ==
    SumQuantity({i \in 1..Len(movements) :
                    /\ movements[i].tenant = tenant
                    /\ movements[i].product = product
                    /\ movements[i].warehouse = warehouse})

\* aggregate(Sum('quantity'))['quantity__sum'] or 0, all warehouses
ProductStock(tenant, product) ==
    SumQuantity({i \in 1..Len(movements) :
                    /\ movements[i].tenant = tenant
                    /\ movements[i].product = product})

(***************************************************************************)
(* generate_movement_number.  A movement number is the string              *)
(* prefix-YYYYMM-NNNN, to which stock_transfer appends -OUT or -IN; the    *)
(* model keeps its parts.                                                  *)
(***************************************************************************)
PrefixOf(movement_type) ==
    CASE movement_type = "receipt" -> "REC"
      [] movement_type = "issue" -> "ISS"
      [] movement_type \in {"transfer_out", "transfer_in"} -> "TRF"
      [] movement_type = "adjustment" -> "ADJ"
      [] movement_type \in {"production_receipt", "production_issue"} -> "PROD"
      [] OTHER -> "MOV"

\* int(movement_number.split('-')[-1]) + 1, or 1 when that is no number
NextSeqAfter(number) == IF number.suffix = "" THEN number.seq + 1 ELSE 1

\* The number generate_movement_number returns when the table holds rows.
GenerateMovementNumber(rows, tenant, movement_type) ==
    LET prefix    == PrefixOf(movement_type)
        date_part == MonthOf(now)
        matching  == {i \in 1..Len(rows) :
                         /\ rows[i].tenant = tenant
                         /\ rows[i].movement_number.prefix = prefix
                         /\ rows[i].movement_number.month = date_part}
        next_seq  == IF matching = {} THEN 1
                     ELSE LET last == CHOOSE i \in matching :
                                          \A j \in matching : j <= i
                          IN  NextSeqAfter(rows[last].movement_number)
    IN  [prefix |-> prefix, month |-> date_part, seq |-> next_seq, suffix |-> ""]

WithSuffix(number, suffix) == [number EXCEPT !.suffix = suffix]

\* unique_together = ['tenant', 'movement_number']
NumberTaken(rows, tenant, number) ==
    \E i \in 1..Len(rows) :
        rows[i].tenant = tenant /\ rows[i].movement_number = number

Movement(tenant, number, movement_type, product, warehouse, quantity, unit_cost, reference_doc, movement_date) ==
    [tenant          |-> tenant,
     movement_number |-> number,
     movement_type   |-> movement_type,
     product         |-> product,
     warehouse       |-> warehouse,
     quantity        |-> quantity,
     unit_cost       |-> unit_cost,
     reference_doc   |-> reference_doc,
     movement_date   |-> movement_date]

Status(code) == [kind |-> "status", status |-> code]

(***************************************************************************)
(* Movement producers.                                                     *)
(***************************************************************************)
OutgoingTypes == {"issue", "transfer_out", "production_issue"}

\* StockMovementSerializer.validate
MovementValid(tenant, movement_type, product, warehouse, quantity) ==
    movement_type \in OutgoingTypes =>
        /\ ~(quantity > 0)
        /\ ~(WarehouseStock(tenant, product, warehouse) < Abs(quantity))

\* POST to StockMovementViewSet: validate, then perform_create.
StockMovementCreate(tenant, movement_type, product, warehouse, quantity, unit_cost, movement_date) ==
    /\ LET number == GenerateMovementNumber(movements, tenant, movement_type)
       IN  IF ~MovementValid(tenant, movement_type, product, warehouse, quantity)
           THEN /\ resp' = Status(400)
                /\ UNCHANGED movements
           ELSE IF NumberTaken(movements, tenant, number)
           THEN /\ resp' = Status(500)
                /\ UNCHANGED movements
           ELSE /\ movements' =
                       Append(movements,
                              Movement(tenant, number, movement_type, product,
                                       warehouse, quantity, unit_cost, "",
                                       movement_date))
                /\ resp' = Status(201)
    /\ UNCHANGED <<products, purchase_orders, now, workflow>>

\* StockMovementViewSet.stock_transfer
StockTransfer(tenant, product, from_warehouse, to_warehouse, quantity) ==
    /\ LET available_stock == WarehouseStock(tenant, product, from_warehouse)
           transfer_number == GenerateMovementNumber(movements, tenant, "TRANSFER")
           out_row ==
               Movement(tenant, WithSuffix(transfer_number, "OUT"), "transfer_out",
                        product, from_warehouse, -quantity,
                        products[product].standard_cost, transfer_number, now)
           in_row ==
               Movement(tenant, WithSuffix(transfer_number, "IN"), "transfer_in",
                        product, to_warehouse, quantity,
                        products[product].standard_cost, transfer_number, now)
       IN  IF available_stock < quantity
           THEN /\ resp' = Status(400)
                /\ UNCHANGED movements
           ELSE IF \/ NumberTaken(movements, tenant, out_row.movement_number)
                   \/ NumberTaken(movements, tenant, in_row.movement_number)
           THEN /\ resp' = Status(500)
                /\ UNCHANGED movements
           ELSE /\ movements' = movements \o <<out_row, in_row>>
                /\ resp' = Status(200)
    /\ UNCHANGED <<products, purchase_orders, now, workflow>>

\* quantity = models.DecimalField(max_digits=12, decimal_places=3)
QuantityPlaces == 3

\* What the numeric(12, 3) column keeps of a Decimal with more places: the
\* value rounded to the column's scale, ties away from zero.
StoredQuantity(x) ==
    IF x.e >= -QuantityPlaces THEN x
    ELSE LET k == -QuantityPlaces - x.e
             a == Abs(x.m)
             q == a \div (10 ^ k)
             r == a % (10 ^ k)
         IN  Canon(Sgn(x.m) * (IF 2 * r >= 10 ^ k THEN q + 1 ELSE q),
                   -QuantityPlaces)

\* The whole number a Decimal without fraction digits stands for.
IntegerOf(x) == x.m * (10 ^ x.e)

\* quick_stock_adjustment; actual_quantity is Decimal(str(data['actual_quantity'])).
\* The ledger of the model holds whole quantities: requests are such that
\* the row written holds one.
QuickStockAdjustment(tenant, product, warehouse, actual_quantity) ==
    /\ LET system_stock    == WarehouseStock(tenant, product, warehouse)
           adjustment_qty  == Sub(actual_quantity, OfInt(system_stock), DecPrec)
           movement_number == GenerateMovementNumber(movements, tenant, "ADJ")
       IN  IF adjustment_qty = Zero
           THEN /\ resp' = Status(200)
                /\ UNCHANGED movements
           ELSE IF NumberTaken(movements, tenant, movement_number)
           THEN /\ resp' = Status(500)
                /\ UNCHANGED movements
           ELSE /\ movements' =
                       Append(movements,
                              Movement(tenant, movement_number, "adjustment",
                                       product, warehouse,
                                       IntegerOf(StoredQuantity(adjustment_qty)),
                                       products[product].standard_cost,
                                       "Cycle Count", now))
                /\ resp' = Status(200)
    /\ UNCHANGED <<products, purchase_orders, now, workflow>>

\* Warehouse.objects.filter(tenant=tenant).first()
FirstWarehouse(tenant) == IF tenant = "T1" THEN "W1" ELSE "W3"

\* The loop of receive over po.lines: the table after one receipt per line;
\* ok is FALSE when a generated number is taken (IntegrityError).
RECURSIVE ReceiveLines(_, _, _)
ReceiveLines(rows, po, lines) ==
    IF lines = <<>> THEN [ok |-> TRUE, rows |-> rows]
    ELSE LET line   == lines[1]
             number == GenerateMovementNumber(rows, po.tenant, "PO-RECV")
         IN  IF NumberTaken(rows, po.tenant, number)
             THEN [ok |-> FALSE, rows |-> rows]
             ELSE ReceiveLines(
                      Append(rows,
                             Movement(po.tenant, number, "receipt", line.product,
                                      FirstWarehouse(po.tenant), line.quantity,
                                      line.unit_price, po.po_number, now)),
                      po, SubSeq(lines, 2, Len(lines)))

\* PurchaseOrderViewSet.get_queryset: the orders get_object finds.
VisibleOrders(tenant) ==
    {id \in DOMAIN purchase_orders : purchase_orders[id].tenant = tenant}

\* PurchaseOrderViewSet.send
PurchaseOrderSend(tenant, id) ==
    /\ IF id \notin VisibleOrders(tenant)
       THEN /\ resp' = Status(404)
            /\ UNCHANGED purchase_orders
       ELSE IF purchase_orders[id].status # "draft"
       THEN /\ resp' = Status(400)
            /\ UNCHANGED purchase_orders
       ELSE /\ purchase_orders' = [purchase_orders EXCEPT ![id].status = "sent"]
            /\ resp' = Status(200)
    /\ UNCHANGED <<products, movements, now, workflow>>

\* PurchaseOrderViewSet.receive
PurchaseOrderReceive(tenant, id) ==
    /\ IF id \notin VisibleOrders(tenant)
       THEN /\ resp' = Status(404)
            /\ UNCHANGED <<purchase_orders, movements>>
       ELSE IF purchase_orders[id].status # "sent"
       THEN /\ resp' = Status(400)
            /\ UNCHANGED <<purchase_orders, movements>>
       ELSE LET po       == purchase_orders[id]
                received == ReceiveLines(movements, po, po.lines)
            IN  IF ~received.ok
                THEN /\ resp' = Status(500)
                     /\ UNCHANGED <<purchase_orders, movements>>
                ELSE /\ purchase_orders' =
                            [purchase_orders EXCEPT ![id].status = "received"]
                     /\ movements' = received.rows
                     /\ resp' = Status(200)
    /\ UNCHANGED <<products, now, workflow>>

\* PurchaseOrderViewSet.cancel
PurchaseOrderCancel(tenant, id) ==
    /\ IF id \notin VisibleOrders(tenant)
       THEN /\ resp' = Status(404)
            /\ UNCHANGED purchase_orders
       ELSE IF purchase_orders[id].status \in {"received", "cancelled"}
       THEN /\ resp' = Status(400)
            /\ UNCHANGED purchase_orders
       ELSE /\ purchase_orders' = [purchase_orders EXCEPT ![id].status = "cancelled"]
            /\ resp' = Status(200)
    /\ UNCHANGED <<products, movements, now, workflow>>

(***************************************************************************)
(* Requests that overlap.  A detail action first loads its row with        *)
(* get_object and later tests and writes the copy it loaded; no row is     *)
(* locked and ATOMIC_REQUESTS is not set, so other requests run between    *)
(* the two.  The journal tables complete_production may write to are not   *)
(* part of the model.                                                      *)
(***************************************************************************)
Requests == {"r1", "r2"}

Idle == [handler |-> "idle"]

Loaded(handler, id, row, final_quantity_completed) ==
    [handler |-> handler, id |-> id, row |-> row,
     final_quantity_completed |-> final_quantity_completed]

\* request.data.get('final_quantity_completed'): absent, or a number
NoFinalQuantity == [given |-> FALSE, value |-> 0]

FinalQuantity(value) == [given |-> TRUE, value |-> value]

\* WorkOrderViewSet.get_queryset
WorkOrderQueryset(tenant) ==
    {id \in DOMAIN work_orders : work_orders[id].tenant = tenant}

\* self.get_object() of a work-order action
WorkOrderGetObject(request, handler, tenant, id, final_quantity_completed) ==
    /\ in_flight[request] = Idle
    /\ IF id \notin WorkOrderQueryset(tenant)
       THEN /\ resp' = Status(404)
            /\ UNCHANGED in_flight
       ELSE /\ in_flight' =
                   [in_flight EXCEPT ![request] =
                       Loaded(handler, id, work_orders[id], final_quantity_completed)]
            /\ UNCHANGED resp
    /\ UNCHANGED <<products, movements, purchase_orders, now, work_orders,
                   thread_local, last_reads>>

\* WorkOrderViewSet.release, after get_object
WorkOrderRelease(request) ==
    /\ in_flight[request].handler = "release"
    /\ LET work_order == in_flight[request].row
           id         == in_flight[request].id
       IN  IF work_order.status # "planned"
           THEN /\ resp' = Status(400)
                /\ UNCHANGED work_orders
           ELSE /\ work_orders' =
                       [work_orders EXCEPT
                           ![id] = [work_order EXCEPT !.status = "released"]]
                /\ resp' = Status(200)
    /\ in_flight' = [in_flight EXCEPT ![request] = Idle]
    /\ UNCHANGED <<products, movements, purchase_orders, now, thread_local, last_reads>>

\* WorkOrderViewSet.start_production, after get_object
WorkOrderStartProduction(request) ==
    /\ in_flight[request].handler = "start_production"
    /\ LET work_order == in_flight[request].row
           id         == in_flight[request].id
       IN  IF work_order.status # "released"
           THEN /\ resp' = Status(400)
                /\ UNCHANGED work_orders
           ELSE /\ work_orders' =
                       [work_orders EXCEPT
                           ![id] = [work_order EXCEPT !.status = "in_progress"]]
                /\ resp' = Status(200)
    /\ in_flight' = [in_flight EXCEPT ![request] = Idle]
    /\ UNCHANGED <<products, movements, purchase_orders, now, thread_local, last_reads>>

\* WorkOrderViewSet.complete_production, after get_object: save(), then
\* create_production_receipt, outside any transaction.
WorkOrderCompleteProduction(request) ==
    /\ in_flight[request].handler = "complete_production"
    /\ LET work_order == in_flight[request].row
           id         == in_flight[request].id
           final_qty  == in_flight[request].final_quantity_completed
           completed  ==
               [work_order EXCEPT
                   !.status = "completed",
                   !.quantity_completed =
                       IF final_qty.given THEN final_qty.value ELSE @]
           number == GenerateMovementNumber(movements, work_order.tenant, "PROD")
       IN  IF work_order.status # "in_progress"
           THEN /\ resp' = Status(400)
                /\ UNCHANGED <<work_orders, movements>>
           ELSE /\ work_orders' = [work_orders EXCEPT ![id] = completed]
                /\ IF ~(completed.quantity_completed > 0)
                   THEN /\ resp' = Status(200)
                        /\ UNCHANGED movements
                   ELSE IF NumberTaken(movements, work_order.tenant, number)
                   THEN /\ resp' = Status(500)
                        /\ UNCHANGED movements
                   ELSE /\ movements' =
                               Append(movements,
                                      Movement(work_order.tenant, number,
                                               "production_receipt",
                                               work_order.product,
                                               FirstWarehouse(work_order.tenant),
                                               completed.quantity_completed,
                                               products[work_order.product].standard_cost,
                                               work_order.wo_number, now))
                        /\ resp' = Status(200)
    /\ in_flight' = [in_flight EXCEPT ![request] = Idle]
    /\ UNCHANGED <<products, purchase_orders, now, thread_local, last_reads>>

\* WorkOrderViewSet.cancel, after get_object: save(update_fields=['status'])
WorkOrderCancel(request) ==
    /\ in_flight[request].handler = "cancel"
    /\ LET work_order == in_flight[request].row
           id         == in_flight[request].id
       IN  IF work_order.status = "completed"
           THEN /\ resp' = Status(400)
                /\ UNCHANGED work_orders
           ELSE IF work_order.status = "cancelled"
           THEN /\ resp' = Status(200)
                /\ UNCHANGED work_orders
           ELSE /\ work_orders' = [work_orders EXCEPT ![id].status = "cancelled"]
                /\ resp' = Status(200)
    /\ in_flight' = [in_flight EXCEPT ![request] = Idle]
    /\ UNCHANGED <<products, movements, purchase_orders, now, thread_local, last_reads>>

\* self.get_object() of a purchase-order action
PurchaseOrderGetObject(request, handler, tenant, id) ==
    /\ in_flight[request] = Idle
    /\ IF id \notin VisibleOrders(tenant)
       THEN /\ resp' = Status(404)
            /\ UNCHANGED in_flight
       ELSE /\ in_flight' =
                   [in_flight EXCEPT ![request] =
                       Loaded(handler, id, purchase_orders[id], NoFinalQuantity)]
            /\ UNCHANGED resp
    /\ UNCHANGED <<products, movements, purchase_orders, now, work_orders,
                   thread_local, last_reads>>

\* PurchaseOrderViewSet.send, after get_object
PurchaseOrderSendLoaded(request) ==
    /\ in_flight[request].handler = "send"
    /\ LET po == in_flight[request].row
           id == in_flight[request].id
       IN  IF po.status # "draft"
           THEN /\ resp' = Status(400)
                /\ UNCHANGED purchase_orders
           ELSE /\ purchase_orders' =
                       [purchase_orders EXCEPT ![id] = [po EXCEPT !.status = "sent"]]
                /\ resp' = Status(200)
    /\ in_flight' = [in_flight EXCEPT ![request] = Idle]
    /\ UNCHANGED <<products, movements, now, work_orders, thread_local, last_reads>>

\* PurchaseOrderViewSet.receive, after get_object: the status test, then
\* the transaction that saves the order and writes the receipts.
PurchaseOrderReceiveLoaded(request) ==
    /\ in_flight[request].handler = "receive"
    /\ LET po       == in_flight[request].row
           id       == in_flight[request].id
           received == ReceiveLines(movements, po, purchase_orders[id].lines)
       IN  IF po.status # "sent"
           THEN /\ resp' = Status(400)
                /\ UNCHANGED <<purchase_orders, movements>>
           ELSE IF ~received.ok
           THEN /\ resp' = Status(500)
                /\ UNCHANGED <<purchase_orders, movements>>
           ELSE /\ purchase_orders' =
                       [purchase_orders EXCEPT
                           ![id] = [po EXCEPT !.status = "received"]]
                /\ movements' = received.rows
                /\ resp' = Status(200)
    /\ in_flight' = [in_flight EXCEPT ![request] = Idle]
    /\ UNCHANGED <<products, now, work_orders, thread_local, last_reads>>

\* PurchaseOrderViewSet.cancel, after get_object
PurchaseOrderCancelLoaded(request) ==
    /\ in_flight[request].handler = "cancel_order"
    /\ LET po == in_flight[request].row
           id == in_flight[request].id
       IN  IF po.status \in {"received", "cancelled"}
           THEN /\ resp' = Status(400)
                /\ UNCHANGED purchase_orders
           ELSE /\ purchase_orders' =
                       [purchase_orders EXCEPT
                           ![id] = [po EXCEPT !.status = "cancelled"]]
                /\ resp' = Status(200)
    /\ in_flight' = [in_flight EXCEPT ![request] = Idle]
    /\ UNCHANGED <<products, movements, now, work_orders, thread_local, last_reads>>

\* PUT or PATCH to ProductViewSet: get_object looks the product up in
\* get_queryset, the serializer writes reorder_point.
ProductUpdate(tenant, product, reorder_point) ==
    /\ IF product \notin ActiveProducts(tenant)
       THEN /\ resp' = Status(404)
            /\ UNCHANGED products
       ELSE /\ products' = [products EXCEPT ![product].reorder_point = reorder_point]
            /\ resp' = Status(200)
    /\ UNCHANGED <<movements, purchase_orders, now, workflow>>

\* Time passes between two requests.
Tick ==
    /\ now < MaxTime
    /\ now' = now + 1
    /\ UNCHANGED <<products, movements, purchase_orders, resp, workflow>>

(***************************************************************************)
(* Read models.                                                            *)
(***************************************************************************)
\* The ids of a set in ascending order.
RECURSIVE Ascending(_)
Ascending(ids) ==
    IF ids = {} THEN <<>>
    ELSE LET top == CHOOSE i \in ids : \A j \in ids : j <= i
         IN  Append(Ascending(ids \ {top}), top)

\* The filter without its movement_date condition.
MovementsOfAnyDate(tenant, product, valuation_date) ==
    {i \in 1..Len(movements) :
        /\ movements[i].tenant = tenant
        /\ movements[i].product = product}

\* The filter without its tenant condition.
MovementsUpToOfAnyTenant(tenant, product, valuation_date) ==
    {i \in 1..Len(movements) :
        /\ movements[i].product = product
        /\ DateOf(movements[i].movement_date) <= valuation_date}

\* filter(tenant=tenant, product=product, movement_date__date__lte=valuation_date)
MovementsUpTo(tenant, product, valuation_date) ==
    {i \in 1..Len(movements) :
        /\ movements[i].tenant = tenant
        /\ movements[i].product = product
        /\ DateOf(movements[i].movement_date) <= valuation_date}

\* .order_by('movement_date'): the sequences of ids in which the store may
\* return the rows.  Rows with equal movement_date come in any order.
RECURSIVE RowOrders(_)
RowOrders(ids) ==
    IF ids = {} THEN {<<>>}
    ELSE LET latest == {i \in ids : \A j \in ids :
                           movements[j].movement_date <= movements[i].movement_date}
         IN  UNION {{Append(s, i) : s \in RowOrders(ids \ {i})} : i \in latest}

RowsOf(order) == [k \in DOMAIN order |-> movements[order[k]]]

\* valuation_data[product.sku]
ValuationEntry(product, order) ==
    LET snapshot == CostingSnapshot(ReplayAll(RowsOf(order)))
    IN  [category      |-> IF products[product].category = ""
                           THEN "Uncategorized"
                           ELSE products[product].category,
         current_qty   |-> snapshot.current_qty,
         average_cost  |-> snapshot.average_cost,
         total_value   |-> snapshot.total_value,
         reorder_point |-> products[product].reorder_point]

\* sum(...) of floats, left to right, starting from 0
RECURSIVE SumFloats(_)
SumFloats(s) ==
    IF s = <<>> THEN Zero
    ELSE Add(SumFloats(SubSeq(s, 1, Len(s) - 1)), s[Len(s)], FloatPrec)

\* The report with the average costs summed up in place of the values.
ValuationReportSummingCosts(tenant, valuation_date, orders) ==
    LET listed  == Ascending(DOMAIN orders)
        skus    == {products[p].sku : p \in DOMAIN orders}
        bySku   == [sku \in skus |->
                       CHOOSE p \in DOMAIN orders :
                           /\ products[p].sku = sku
                           /\ \A q \in DOMAIN orders :
                                  products[q].sku = sku => q <= p]
        details == [sku \in skus |-> ValuationEntry(bySku[sku], orders[bySku[sku]])]
        values  == [k \in DOMAIN listed |->
                       ValuationEntry(listed[k], orders[listed[k]]).average_cost]
    IN  [kind                  |-> "valuation",
         tenant                |-> tenant,
         valuation_date        |-> valuation_date,
         total_inventory_value |-> SumFloats(values),
         details               |-> details,
         rows                  |-> [sku \in skus |-> orders[bySku[sku]]]]

\* What calculate_inventory_valuation returns when the queryset of product p
\* yields the rows orders[p].
ValuationReport(tenant, valuation_date, orders) ==
    LET listed  == Ascending(DOMAIN orders)
        skus    == {products[p].sku : p \in DOMAIN orders}
        bySku   == [sku \in skus |->
                       CHOOSE p \in DOMAIN orders :
                           /\ products[p].sku = sku
                           /\ \A q \in DOMAIN orders :
                                  products[q].sku = sku => q <= p]
        details == [sku \in skus |-> ValuationEntry(bySku[sku], orders[bySku[sku]])]
        values  == [k \in DOMAIN listed |->
                       ValuationEntry(listed[k], orders[listed[k]]).total_value]
    IN  [kind                  |-> "valuation",
         tenant                |-> tenant,
         valuation_date        |-> valuation_date,
         total_inventory_value |-> SumFloats(values),
         details               |-> details,
         rows                  |-> [sku \in skus |-> orders[bySku[sku]]]]

\* The choices of one row order per active product.
QueryResults(tenant, valuation_date) ==
    LET active == ActiveProducts(tenant)
        all    == UNION {RowOrders(MovementsUpTo(tenant, p, valuation_date)) :
                            p \in active}
    IN  {f \in [active -> all] :
            \A p \in active :
                f[p] \in RowOrders(MovementsUpTo(tenant, p, valuation_date))}

\* calculate_inventory_valuation(tenant, valuation_date)
CalculateInventoryValuation(tenant, valuation_date) ==
    /\ \E orders \in QueryResults(tenant, valuation_date) :
           resp' = ValuationReport(tenant, valuation_date, orders)
    /\ UNCHANGED <<products, movements, purchase_orders, now, workflow>>

\* The dict abc_analysis builds from the items of the valuation wrapper, in
\* insertion order: the scalar under 'total_inventory_value' is wrapped with
\* its own value, the dict under 'details' has no 'total_value' key and
\* gets 0.
AbcValuation(report) ==
    <<[sku |-> "total_inventory_value",
       total_value |-> report.total_inventory_value, quantity |-> 0],
      [sku |-> "details", total_value |-> Zero, quantity |-> 0]>>

\* sorted(valuation.items(), key=total_value, reverse=True): descending, stable
RECURSIVE SortedItems(_)
SortedItems(s) ==
    IF s = <<>> THEN <<>>
    ELSE LET sorted == SortedItems(SubSeq(s, 1, Len(s) - 1))
             x      == s[Len(s)]
             at     == Cardinality({k \in DOMAIN sorted :
                                       ~Less(sorted[k].total_value, x.total_value)})
         IN  SubSeq(sorted, 1, at) \o <<x>> \o SubSeq(sorted, at + 1, Len(sorted))

\* cumulative_value after the first k items
RECURSIVE CumulativeValue(_, _)
CumulativeValue(sorted_items, k) ==
    IF k = 0 THEN Zero
    ELSE Add(CumulativeValue(sorted_items, k - 1),
             sorted_items[k].total_value, FloatPrec)

\* (cumulative_value / max(total_value, 1)) * 100
CumulativePct(cumulative_value, total_value) ==
    LET denominator == IF Less(total_value, OfInt(1)) THEN OfInt(1) ELSE total_value
    IN  Mul(Div(cumulative_value, denominator, FloatPrec), OfInt(100), FloatPrec)

Classification(cumulative_pct) ==
    IF ~Less(OfInt(80), cumulative_pct) THEN "A"
    ELSE IF ~Less(OfInt(95), cumulative_pct) THEN "B"
    ELSE "C"

\* classification_summary[cls]: the items of a class and their value
ClassificationSummary(abc_analysis_list, cls) ==
    LET members == SelectSeq(abc_analysis_list, LAMBDA item : item.classification = cls)
    IN  [items |-> Len(members),
         value |-> SumFloats([k \in DOMAIN members |-> members[k].inventory_value])]

\* abc_analysis without its zero-total return: the loop classifies whatever
\* the total is.
AbcReportClassifyingZeroTotal(tenant, report) ==
    LET sorted_items == SortedItems(AbcValuation(report))
        total_value  == CumulativeValue(sorted_items, Len(sorted_items))
        abc_analysis_list ==
            [k \in DOMAIN sorted_items |->
                LET cumulative_pct ==
                        CumulativePct(CumulativeValue(sorted_items, k), total_value)
                IN  [sku                  |-> sorted_items[k].sku,
                     inventory_value      |-> sorted_items[k].total_value,
                     quantity             |-> sorted_items[k].quantity,
                     classification       |-> Classification(cumulative_pct),
                     cumulative_value_pct |-> RoundPlaces(cumulative_pct, 2)]]
    IN  [kind         |-> "abc",
         tenant       |-> tenant,
         total_items  |-> Len(abc_analysis_list),
         total_value  |-> total_value,
         classification_summary |->
             [cls \in {"A", "B", "C"} |->
                 ClassificationSummary(abc_analysis_list, cls)],
         abc_analysis |-> abc_analysis_list,
         performed    |-> TRUE,
         valuation    |->
             [total_inventory_value |-> report.total_inventory_value,
              details               |-> report.details]]

\* The response of abc_analysis to the wrapper calculate_inventory_valuation
\* returned; valuation keeps that wrapper next to it.
AbcReport(tenant, report) ==
    LET sorted_items == SortedItems(AbcValuation(report))
        total_value  == CumulativeValue(sorted_items, Len(sorted_items))
        abc_analysis_list ==
            [k \in DOMAIN sorted_items |->
                LET cumulative_pct ==
                        CumulativePct(CumulativeValue(sorted_items, k), total_value)
                IN  [sku                  |-> sorted_items[k].sku,
                     inventory_value      |-> sorted_items[k].total_value,
                     quantity             |-> sorted_items[k].quantity,
                     classification       |-> Classification(cumulative_pct),
                     cumulative_value_pct |-> RoundPlaces(cumulative_pct, 2)]]
    IN  IF total_value = Zero
        THEN [kind         |-> "abc",
              tenant       |-> tenant,
              total_items  |-> Len(sorted_items),
              total_value  |-> Zero,
              classification_summary |->
                  [cls \in {"A", "B", "C"} |-> [items |-> 0, value |-> Zero]],
              abc_analysis |-> <<>>,
              performed    |-> FALSE,
              valuation    |->
                  [total_inventory_value |-> report.total_inventory_value,
                   details               |-> report.details]]
        ELSE [kind         |-> "abc",
              tenant       |-> tenant,
              total_items  |-> Len(abc_analysis_list),
              total_value  |-> total_value,
              classification_summary |->
                  [cls \in {"A", "B", "C"} |->
                      ClassificationSummary(abc_analysis_list, cls)],
              abc_analysis |-> abc_analysis_list,
              performed    |-> TRUE,
              valuation    |->
                  [total_inventory_value |-> report.total_inventory_value,
                   details               |-> report.details]]

\* abc_analysis: values the stock as of today, then classifies.
AbcAnalysis(tenant) ==
    /\ \E orders \in QueryResults(tenant, DateOf(now)) :
           resp' = AbcReport(tenant, ValuationReport(tenant, DateOf(now), orders))
    /\ UNCHANGED <<products, movements, purchase_orders, now, workflow>>

\* The entry with urgency HIGH only below zero stock.
SuggestionUrgentBelowZero(tenant, product) ==
    LET current_stock == ProductStock(tenant, product)
        reorder_point == products[product].reorder_point
        shortage      == reorder_point - current_stock
        suggested_qty == Max2(shortage, reorder_point * 2)
    IN  [product_sku         |-> products[product].sku,
         current_stock       |-> FloatOf(OfInt(current_stock)),
         reorder_point       |-> reorder_point,
         shortage            |-> FloatOf(OfInt(shortage)),
         suggested_order_qty |-> FloatOf(OfInt(suggested_qty)),
         estimated_cost      |->
             FloatOf(Mul(OfInt(suggested_qty),
                         OfInt(products[product].standard_cost), DecPrec)),
         urgency             |-> IF current_stock < 0 THEN "HIGH" ELSE "MEDIUM"]

\* One entry of the list generate_reorder_suggestions builds.
Suggestion(tenant, product) ==
    LET current_stock == ProductStock(tenant, product)
        reorder_point == products[product].reorder_point
        shortage      == reorder_point - current_stock
        suggested_qty == Max2(shortage, reorder_point * 2)
    IN  [product_sku         |-> products[product].sku,
         current_stock       |-> FloatOf(OfInt(current_stock)),
         reorder_point       |-> reorder_point,
         shortage            |-> FloatOf(OfInt(shortage)),
         suggested_order_qty |-> FloatOf(OfInt(suggested_qty)),
         estimated_cost      |->
             FloatOf(Mul(OfInt(suggested_qty),
                         OfInt(products[product].standard_cost), DecPrec)),
         urgency             |-> IF current_stock <= 0 THEN "HIGH" ELSE "MEDIUM"]

\* The loop suggesting only for stock strictly below the reorder point.
RECURSIVE SuggestionsBelowReorderPoint(_, _)
SuggestionsBelowReorderPoint(tenant, listed) ==
    IF listed = <<>> THEN <<>>
    ELSE LET product == listed[Len(listed)]
             before  == SuggestionsBelowReorderPoint(
                            tenant, SubSeq(listed, 1, Len(listed) - 1))
         IN  IF ProductStock(tenant, product) < products[product].reorder_point
             THEN Append(before, Suggestion(tenant, product))
             ELSE before

\* The suggestions in the order of the loop over the active products.
RECURSIVE Suggestions(_, _)
Suggestions(tenant, listed) ==
    IF listed = <<>> THEN <<>>
    ELSE LET product == listed[Len(listed)]
             before  == Suggestions(tenant, SubSeq(listed, 1, Len(listed) - 1))
         IN  IF ProductStock(tenant, product) <= products[product].reorder_point
             THEN Append(before, Suggestion(tenant, product))
             ELSE before

\* The sort key without its urgency component.
KeyGreaterByShortage(x, y) ==
    Sub([m |-> Abs(y.shortage.m), e |-> y.shortage.e],
        [m |-> Abs(x.shortage.m), e |-> x.shortage.e], FloatPrec).m < 0

\* key(x) > key(y) for key = (x['urgency'] == 'HIGH', abs(x['shortage']))
KeyGreater(x, y) ==
    \/ x.urgency = "HIGH" /\ y.urgency # "HIGH"
    \/ /\ (x.urgency = "HIGH") = (y.urgency = "HIGH")
       /\ Sub([m |-> Abs(y.shortage.m), e |-> y.shortage.e],
              [m |-> Abs(x.shortage.m), e |-> x.shortage.e], FloatPrec).m < 0

\* list.sort(key=..., reverse=True): descending by key, stable.
RECURSIVE SortSuggestions(_)
SortSuggestions(s) ==
    IF s = <<>> THEN <<>>
    ELSE LET sorted == SortSuggestions(SubSeq(s, 1, Len(s) - 1))
             x      == s[Len(s)]
             ahead  == {k \in DOMAIN sorted : ~KeyGreater(x, sorted[k])}
             n      == Cardinality(ahead)
         IN  SubSeq(sorted, 1, n) \o <<x>> \o SubSeq(sorted, n + 1, Len(sorted))

\* The suggestions acted upon: a draft purchase order is placed for the
\* first of them.
GenerateReorderSuggestionsPlacingOrder(tenant) ==
    LET suggestions ==
            SortSuggestions(Suggestions(tenant, Ascending(ActiveProducts(tenant))))
    IN  /\ resp' = [kind |-> "reorder", tenant |-> tenant,
                    suggestions |-> suggestions]
        /\ purchase_orders' =
               IF suggestions = <<>> THEN purchase_orders
               ELSE Append(purchase_orders,
                           [tenant |-> tenant, po_number |-> "PO3",
                            status |-> "draft", lines |-> <<>>])
        /\ UNCHANGED <<products, movements, now, workflow>>

\* generate_reorder_suggestions(tenant)
GenerateReorderSuggestions(tenant) ==
    /\ resp' = [kind        |-> "reorder",
                tenant      |-> tenant,
                suggestions |->
                    SortSuggestions(
                        Suggestions(tenant, Ascending(ActiveProducts(tenant))))]
    /\ UNCHANGED <<products, movements, purchase_orders, now, workflow>>

(***************************************************************************)
(* The system.                                                             *)
(***************************************************************************)
InitialProducts(second_active) ==
    [p \in ProductIds |->
        CASE p = 1 -> [tenant |-> "T1", sku |-> "S1", category |-> "Raw",
                       standard_cost |-> 1, reorder_point |-> 1,
                       is_active |-> TRUE]
          [] p = 2 -> [tenant |-> "T1", sku |-> "S2", category |-> "",
                       standard_cost |-> 2, reorder_point |-> 0,
                       is_active |-> second_active]
          [] OTHER -> [tenant |-> "T2", sku |-> "S1", category |-> "Raw",
                       standard_cost |-> 1, reorder_point |-> 2,
                       is_active |-> TRUE]]

InitialOrders ==
    <<[tenant |-> "T1", po_number |-> "PO1", status |-> "draft",
       lines  |-> <<[product |-> 1, quantity |-> 2, unit_price |-> 3]>>],
      [tenant |-> "T1", po_number |-> "PO2", status |-> "draft",
       lines  |-> <<[product |-> 1, quantity |-> 1, unit_price |-> 1],
                    [product |-> 2, quantity |-> 2, unit_price |-> 2]>>]>>

InitialWorkOrders ==
    <<[tenant |-> "T1", wo_number |-> "WO1", product |-> 1,
       status |-> "planned", quantity_completed |-> 0],
      [tenant |-> "T2", wo_number |-> "WO1", product |-> 3,
       status |-> "planned", quantity_completed |-> 1]>>

\* The worker threads, and a thread-local without its tenant attribute.
Threads == {"w1", "w2", "w3"}

Unset == "unset"

NoReads == [read |-> FALSE]

\* Nothing in progress, no work done, nothing read.
InitialWorkflow ==
    /\ work_orders = InitialWorkOrders
    /\ in_flight = [request \in Requests |-> Idle]
    /\ thread_local = [thread \in Threads |-> Unset]
    /\ last_reads = NoReads

Init ==
    /\ \E second_active \in BOOLEAN : products = InitialProducts(second_active)
    /\ movements = <<>>
    /\ purchase_orders = InitialOrders
    /\ now = 0
    /\ resp = Status(0)
    /\ InitialWorkflow

ApiDates == {0, MaxTime}

\* The requests to the movement producers, while the table has room for the
\* rows a request can write.
Creates ==
    /\ Len(movements) < MaxMovements
    /\ \E tenant \in RequestTenants :
        \E product \in TenantProducts(tenant),
           warehouse \in TenantWarehouses(tenant) \cap ApiWarehouses,
           movement_type \in ApiMovementTypes, quantity \in QuantityInputs,
           unit_cost \in UnitCostInputs, movement_date \in ApiDates :
            StockMovementCreate(tenant, movement_type, product, warehouse,
                                quantity, unit_cost, movement_date)

Transfers ==
    /\ Len(movements) + 2 <= MaxMovements
    /\ \E tenant \in RequestTenants :
        \E product \in TenantProducts(tenant),
           from_warehouse \in TenantWarehouses(tenant),
           to_warehouse \in TenantWarehouses(tenant), quantity \in QuantityInputs :
            /\ from_warehouse # to_warehouse
            /\ StockTransfer(tenant, product, from_warehouse, to_warehouse, quantity)

Adjustments ==
    /\ Len(movements) < MaxMovements
    /\ \E tenant \in RequestTenants :
        \E product \in TenantProducts(tenant),
           warehouse \in TenantWarehouses(tenant),
           actual_quantity \in ActualQuantityInputs :
            QuickStockAdjustment(tenant, product, warehouse, OfInt(actual_quantity))

Reads ==
    \E tenant \in RequestTenants :
        \/ \E valuation_date \in Dates :
               CalculateInventoryValuation(tenant, valuation_date)
        \/ GenerateReorderSuggestions(tenant)

Next == Creates \/ Transfers \/ Adjustments \/ Reads \/ Tick

Spec == Init /\ [][Next]_vars

\* The purchase-order workflow next to the read models.
Orders ==
    \E tenant \in Tenants, id \in DOMAIN InitialOrders :
        \/ PurchaseOrderSend(tenant, id)
        \/ /\ id \in VisibleOrders(tenant) =>
                  Len(movements) + Len(purchase_orders[id].lines) <= MaxMovements
           /\ PurchaseOrderReceive(tenant, id)
        \/ PurchaseOrderCancel(tenant, id)

Analyses == \E tenant \in RequestTenants : AbcAnalysis(tenant)

OrderNext == Orders \/ Reads \/ Analyses \/ Tick

OrderSpec == Init /\ [][OrderNext]_vars

\* The two analyses next to the movement producers.
Reorders == \E tenant \in RequestTenants : GenerateReorderSuggestions(tenant)

AnalysisNext == Creates \/ Transfers \/ Adjustments \/ Analyses \/ Reorders \/ Tick

AnalysisSpec == Init /\ [][AnalysisNext]_vars

\* The workflow producers, which all number their movements through
\* generate_movement_number; a request is made at any time and the table
\* holds at most MaxMovements rows after it.
TransferRequests ==
    \E tenant \in RequestTenants :
        \E product \in TenantProducts(tenant),
           from_warehouse \in TenantWarehouses(tenant),
           to_warehouse \in TenantWarehouses(tenant), quantity \in QuantityInputs :
            /\ from_warehouse # to_warehouse
            /\ StockTransfer(tenant, product, from_warehouse, to_warehouse, quantity)
            /\ Len(movements') <= MaxMovements

AdjustmentRequests ==
    \E tenant \in RequestTenants :
        \E product \in TenantProducts(tenant),
           warehouse \in TenantWarehouses(tenant),
           actual_quantity \in ActualQuantityInputs :
            /\ QuickStockAdjustment(tenant, product, warehouse, OfInt(actual_quantity))
            /\ Len(movements') <= MaxMovements

OrderRequests ==
    \E tenant \in RequestTenants, id \in DOMAIN InitialOrders :
        \/ PurchaseOrderSend(tenant, id)
        \/ /\ PurchaseOrderReceive(tenant, id)
           /\ Len(movements') <= MaxMovements

NumberingNext == TransferRequests \/ AdjustmentRequests \/ OrderRequests \/ Tick

NumberingSpec == Init /\ [][NumberingNext]_vars

(***************************************************************************)
(* The replay loop on its own: movements arrive one at a time, of any      *)
(* type, sign and cost, and the loop's accumulator is recorded after each. *)
(***************************************************************************)
MaxReplay == 3

ReplayTypes == {"receipt", "issue", "scrap"}

ReplayQuantities == {-1, 1, 2, 3}

ReplayCosts == {1, 2}

ReplayInit ==
    /\ products = InitialProducts(TRUE)
    /\ movements = <<>>
    /\ purchase_orders = InitialOrders
    /\ now = 0
    /\ resp = [kind |-> "replay", trace |-> <<EmptyRunning>>]
    /\ InitialWorkflow

ReplayStep(movement_type, quantity, unit_cost) ==
    /\ Len(movements) < MaxReplay
    /\ LET movement == [movement_type |-> movement_type, quantity |-> quantity,
                        unit_cost |-> unit_cost]
       IN  /\ movements' = Append(movements, movement)
           /\ resp' = [kind  |-> "replay",
                       trace |-> Append(resp.trace,
                                        ReplayMovement(resp.trace[Len(resp.trace)],
                                                       movement))]
    /\ UNCHANGED <<products, purchase_orders, now, workflow>>

ReplayNext ==
    \E movement_type \in ReplayTypes, quantity \in ReplayQuantities,
       unit_cost \in ReplayCosts :
        ReplayStep(movement_type, quantity, unit_cost)

ReplaySpec == ReplayInit /\ [][ReplayNext]_vars

\* The replay loop fed with movements of every recognised type, each of a
\* quantity at a unit cost.
TypedInputs == {<<-1, 1>>, <<1, 1>>, <<1, 2>>, <<2, 2>>}

TypedReplayNext ==
    \E movement_type \in MovementTypes, input \in TypedInputs :
        ReplayStep(movement_type, input[1], input[2])

TypedReplaySpec == ReplayInit /\ [][TypedReplayNext]_vars

\* Two tenants on one database.  The other tenant posts movements to its first
\* warehouse for any product id (the serializer's product field is not
\* narrowed to the tenant) and edits products; the request tenant posts
\* movements and reads.
OtherTenants == Tenants \ RequestTenants

ReorderPointInputs == {0, 2}

OtherTenantCreates ==
    /\ Len(movements) < MaxMovements
    /\ \E tenant \in OtherTenants, product \in ProductIds,
          quantity \in QuantityInputs, unit_cost \in UnitCostInputs :
           StockMovementCreate(tenant, "receipt", product, FirstWarehouse(tenant),
                               quantity, unit_cost, 0)

OtherTenantProductUpdates ==
    \E tenant \in OtherTenants, product \in ProductIds,
       reorder_point \in ReorderPointInputs :
        ProductUpdate(tenant, product, reorder_point)

\* A tenant's own products and movements.
TenantData(tenant) ==
    [products  |-> [p \in TenantProducts(tenant) |-> products[p]],
     movements |-> SelectSeq(movements, LAMBDA row : row.tenant = tenant)]

\* Every report calculate_inventory_valuation(tenant, valuation_date) can return.
ValuationResults(tenant, valuation_date) ==
    {ValuationReport(tenant, valuation_date, orders) :
        orders \in QueryResults(tenant, valuation_date)}

\* The list generate_reorder_suggestions(tenant) returns.
ReorderResult(tenant) ==
    SortSuggestions(Suggestions(tenant, Ascending(ActiveProducts(tenant))))

\* The tenant calls calculate_inventory_valuation for each cutoff and
\* generate_reorder_suggestions, and keeps what they returned.
TenantReads(tenant) ==
    /\ last_reads' =
           [read        |-> TRUE,
            tenant      |-> tenant,
            data        |-> TenantData(tenant),
            ledger_size |-> Len(movements),
            valuations  |-> [valuation_date \in Dates |->
                                ValuationResults(tenant, valuation_date)],
            suggestions |-> ReorderResult(tenant)]
    /\ UNCHANGED <<products, movements, purchase_orders, now, resp,
                   work_orders, in_flight, thread_local>>

RequestTenantReads == \E tenant \in RequestTenants : TenantReads(tenant)

IsolationNext ==
    Creates \/ OtherTenantCreates \/ OtherTenantProductUpdates \/ RequestTenantReads

IsolationSpec == Init /\ [][IsolationNext]_vars

\* Cycle counts that report fractions of a unit, next to the posted
\* movements: 0, 1, 0.0004 and 1.0004.
CountedQuantities == {OfInt(0), OfInt(1), Canon(4, -4), Canon(10004, -4)}

CycleCounts ==
    \E tenant \in RequestTenants :
        \E product \in TenantProducts(tenant),
           warehouse \in TenantWarehouses(tenant) \cap ApiWarehouses,
           actual_quantity \in CountedQuantities :
            /\ QuickStockAdjustment(tenant, product, warehouse, actual_quantity)
            /\ Len(movements') <= MaxMovements

CycleCountNext == Creates \/ CycleCounts

CycleCountSpec == Init /\ [][CycleCountNext]_vars

\* The work-order actions requested by the clients of the request tenant,
\* two at a time; complete_production with or without a final count.
WorkOrderActions == {"release", "start_production", "complete_production", "cancel"}

FinalQuantityInputs == {NoFinalQuantity, FinalQuantity(2)}

WorkOrderRequests ==
    \E request \in Requests, handler \in WorkOrderActions,
       tenant \in RequestTenants, id \in DOMAIN InitialWorkOrders,
       final_quantity_completed \in FinalQuantityInputs :
        /\ final_quantity_completed.given => handler = "complete_production"
        /\ WorkOrderGetObject(request, handler, tenant, id, final_quantity_completed)

Releases == \E request \in Requests : WorkOrderRelease(request)

Starts == \E request \in Requests : WorkOrderStartProduction(request)

Completions ==
    \E request \in Requests :
        /\ WorkOrderCompleteProduction(request)
        /\ Len(movements') <= MaxMovements

Cancellations == \E request \in Requests : WorkOrderCancel(request)

WorkOrderNext ==
    WorkOrderRequests \/ Releases \/ Starts \/ Completions \/ Cancellations

WorkOrderSpec == Init /\ [][WorkOrderNext]_vars

\* The purchase-order actions requested by the clients of the request
\* tenant, two at a time.
PurchaseOrderActions == {"send", "receive", "cancel_order"}

PurchaseOrderRequests ==
    \E request \in Requests, handler \in PurchaseOrderActions,
       tenant \in RequestTenants, id \in DOMAIN InitialOrders :
        PurchaseOrderGetObject(request, handler, tenant, id)

OrderSends == \E request \in Requests : PurchaseOrderSendLoaded(request)

OrderReceipts ==
    \E request \in Requests :
        /\ PurchaseOrderReceiveLoaded(request)
        /\ Len(movements') <= MaxMovements

OrderCancellations == \E request \in Requests : PurchaseOrderCancelLoaded(request)

PurchaseOrderNext ==
    PurchaseOrderRequests \/ OrderSends \/ OrderReceipts \/ OrderCancellations

PurchaseOrderSpec == Init /\ [][PurchaseOrderNext]_vars

(***************************************************************************)
(* TenantMiddleware.  Each worker thread handles one request at a time and *)
(* owns its attribute of _thread_local; the view it calls is any view, and *)
(* what a view writes to the database is outside this specification.       *)
(***************************************************************************)
NoTenant == "None"

Users == {"u1", "u2"}

Anonymous == "anonymous"

\* The active TenantUser rows.
TenantUsers == {<<"u1", "T1">>, <<"u2", "T2">>}

\* TenantMiddleware.resolve_tenant: subdomain, then X-Tenant-ID header, then
\* the first TenantUser row of an authenticated user.
ResolveTenant(request) ==
    IF request.subdomain # NoTenant THEN request.subdomain
    ELSE IF request.header # NoTenant THEN request.header
    ELSE IF request.user # Anonymous /\ \E row \in TenantUsers : row[1] = request.user
    THEN (CHOOSE row \in TenantUsers : row[1] = request.user)[2]
    ELSE NoTenant

\* get_current_tenant() on a thread
GetCurrentTenant(thread) ==
    IF thread_local[thread] = Unset THEN NoTenant ELSE thread_local[thread]

HttpResponse(status, thread, tenant) ==
    [kind |-> "http", status |-> status, thread |-> thread, tenant |-> tenant]

\* TenantMiddleware.__call__ on a thread; database_down is the
\* OperationalError of resolve_tenant.  The response carries the tenant the
\* view got from get_current_tenant().
TenantMiddlewareCall(thread, request, database_down) ==
    /\ LET tenant == ResolveTenant(request)
       IN  IF database_down
           THEN /\ resp' = HttpResponse(500, thread, NoTenant)
                /\ UNCHANGED thread_local
           ELSE IF /\ tenant # NoTenant
                   /\ request.user # Anonymous
                   /\ <<request.user, tenant>> \notin TenantUsers
           THEN /\ thread_local' = [thread_local EXCEPT ![thread] = tenant]
                /\ resp' = HttpResponse(403, thread, NoTenant)
           ELSE /\ thread_local' = [thread_local EXCEPT ![thread] = Unset]
                /\ resp' = HttpResponse(200, thread, tenant)
    /\ UNCHANGED <<products, movements, purchase_orders, now, work_orders,
                   in_flight, last_reads>>

\* Code that runs on a thread between two requests asks for the tenant.
CurrentTenantBetweenRequests(thread) ==
    /\ resp' = [kind |-> "current_tenant", thread |-> thread,
                tenant |-> GetCurrentTenant(thread)]
    /\ UNCHANGED <<products, movements, purchase_orders, now, work_orders,
                   in_flight, thread_local, last_reads>>

HttpRequests ==
    [subdomain : Tenants \cup {NoTenant}, header : Tenants \cup {NoTenant},
     user : Users \cup {Anonymous}]

MiddlewareCalls ==
    \E thread \in Threads, request \in HttpRequests, database_down \in BOOLEAN :
        TenantMiddlewareCall(thread, request, database_down)

TenantLookups == \E thread \in Threads : CurrentTenantBetweenRequests(thread)

MiddlewareNext == MiddlewareCalls \/ TenantLookups

MiddlewareSpec == Init /\ [][MiddlewareNext]_vars

(***************************************************************************)
(* Properties of the valuation report.                                     *)
(***************************************************************************)
\* C1: in every valuation report, the entry of each active product is the
\* replay of exactly the product's movements dated on or before the cutoff:
\* every such movement is visited once, none dated after the cutoff is
\* visited, they are visited in ascending movement_date order, and the
\* entry's quantity, average cost and value are the outcome of that replay.
ValuationReplaysMovementsUpToCutoff ==
    resp.kind = "valuation" =>
        \A p \in ProductIds :
            (products[p].tenant = resp.tenant /\ products[p].is_active) =>
                LET order == resp.rows[products[p].sku]
                    entry == resp.details[products[p].sku]
                    snapshot == CostingSnapshot(ReplayAll(RowsOf(order)))
                IN  /\ \A k, l \in DOMAIN order :
                           k < l => /\ order[k] # order[l]
                                    /\ movements[order[k]].movement_date
                                           <= movements[order[l]].movement_date
                    /\ {order[k] : k \in DOMAIN order} =
                           {i \in 1..Len(movements) :
                               /\ movements[i].tenant = resp.tenant
                               /\ movements[i].product = p
                               /\ DateOf(movements[i].movement_date)
                                      <= resp.valuation_date}
                    /\ entry.current_qty = snapshot.current_qty
                    /\ entry.average_cost = snapshot.average_cost
                    /\ entry.total_value = snapshot.total_value

\* A report for the first day on a ledger that holds, for product 1, a
\* movement of the second day and two movements of the first day whose
\* insertion order is the reverse of their chronological order.
ValuationSkipsLaterAndSortsEarlier ==
    /\ resp.kind = "valuation"
    /\ resp.valuation_date = 0
    /\ \E i, j, l \in 1..Len(movements) :
           /\ movements[i].product = 1 /\ movements[j].product = 1
           /\ movements[l].product = 1
           /\ i < j
           /\ movements[j].movement_date < movements[i].movement_date
           /\ DateOf(movements[i].movement_date) = 0
           /\ DateOf(movements[l].movement_date) > 0
           /\ resp.rows["S1"] = <<j, i>>

\* C2: a valuation report has exactly one entry per active product of the
\* tenant, keyed by its sku; an active product without movements up to the
\* cutoff has the entry 0 / 0 / 0, and an inactive product has no entry.
ValuationCoversActiveProducts ==
    resp.kind = "valuation" =>
        /\ DOMAIN resp.details =
               {products[p].sku : p \in {q \in ProductIds :
                                            /\ products[q].tenant = resp.tenant
                                            /\ products[q].is_active}}
        /\ \A p \in ProductIds :
               /\ products[p].tenant = resp.tenant
               /\ products[p].is_active
               /\ ~\E i \in 1..Len(movements) :
                      /\ movements[i].tenant = resp.tenant
                      /\ movements[i].product = p
                      /\ DateOf(movements[i].movement_date) <= resp.valuation_date
               => /\ resp.details[products[p].sku].current_qty = Zero
                  /\ resp.details[products[p].sku].average_cost = Zero
                  /\ resp.details[products[p].sku].total_value = Zero
        /\ \A p \in ProductIds :
               (products[p].tenant = resp.tenant /\ ~products[p].is_active) =>
                   products[p].sku \notin DOMAIN resp.details

\* A report on a ledger where the inactive product 2 has movements and the
\* active product 1 has none up to the cutoff.
ValuationOfIdleAndInactiveProducts ==
    /\ resp.kind = "valuation"
    /\ ~products[2].is_active
    /\ \E i \in 1..Len(movements) :
           /\ movements[i].product = 2
           /\ DateOf(movements[i].movement_date) <= resp.valuation_date
    /\ \E i \in 1..Len(movements) : movements[i].product = 1
    /\ \A i \in 1..Len(movements) :
           movements[i].product = 1 =>
               DateOf(movements[i].movement_date) > resp.valuation_date
    /\ resp.details["S1"].total_value = Zero

\* C3: in every valuation report, total_inventory_value is the sum of the
\* total_value of the report's entries.
TotalIsSumOfEntries ==
    resp.kind = "valuation" =>
        LET skus == DOMAIN resp.details
        IN  \E listed \in [1..Cardinality(skus) -> skus] :
                /\ \A k, l \in DOMAIN listed : k # l => listed[k] # listed[l]
                /\ resp.total_inventory_value =
                       SumFloats([k \in DOMAIN listed |->
                                     resp.details[listed[k]].total_value])

\* A report with two entries of different non-zero value, whose quantities
\* differ from 1.
TotalOfTwoValuedEntries ==
    /\ resp.kind = "valuation"
    /\ DOMAIN resp.details = {"S1", "S2"}
    /\ resp.details["S1"].total_value # Zero
    /\ resp.details["S2"].total_value # Zero
    /\ resp.details["S1"].total_value # resp.details["S2"].total_value
    /\ resp.details["S1"].current_qty # OfInt(1)
    /\ resp.total_inventory_value # resp.details["S1"].total_value

\* C4: in every entry of a valuation report, total_value is on-hand
\* quantity times average unit cost, up to the rounding of the division
\* and of the product (a relative error of 10^(2 - FloatPrec)).
ValueIsQuantityTimesAverageCost ==
    resp.kind = "valuation" =>
        \A sku \in DOMAIN resp.details :
            LET entry == resp.details[sku]
                diff  == Sub(entry.total_value,
                             Mul(entry.current_qty, entry.average_cost, FloatPrec),
                             FloatPrec)
            IN  ~Less([m |-> Abs(entry.total_value.m), e |-> entry.total_value.e],
                      [m |-> Abs(diff.m), e |-> diff.e + FloatPrec - 2])

\* C5: on-hand quantity is never negative in a valuation report, whatever
\* the movement producers have written to the ledger and whatever the
\* cutoff.
OnHandQuantityNeverNegative ==
    resp.kind = "valuation" =>
        \A sku \in DOMAIN resp.details : resp.details[sku].current_qty.m >= 0

(***************************************************************************)
(* Properties of the replay loop.  resp.trace[k] is the accumulator before *)
(* movements[k] and resp.trace[k + 1] the accumulator after it.            *)
(***************************************************************************)
\* Every movement so far has a recognised type, a non-negative quantity and
\* unit cost, and no outflow asks for more than the running quantity.
WellFormedReplay ==
    \A k \in 1..Len(movements) :
        /\ movements[k].movement_type \in MovementTypes
        /\ movements[k].quantity >= 0
        /\ movements[k].unit_cost >= 0
        /\ movements[k].movement_type \notin InflowTypes =>
               movements[k].quantity <= resp.trace[k].running_qty

\* C6 (P1): in a replay of well-formed movements whose outflows never exceed
\* the running quantity before them, the running quantity is >= 0 after
\* every step.
ReplayQuantityNonNegative ==
    WellFormedReplay =>
        \A k \in DOMAIN resp.trace : resp.trace[k].running_qty >= 0

\* A well-formed replay of three movements, one of them an outflow that
\* took stock out.
WellFormedReplayWithOutflow ==
    /\ WellFormedReplay
    /\ Len(movements) = MaxReplay
    /\ \E k \in 1..Len(movements) :
           /\ movements[k].movement_type = "issue"
           /\ resp.trace[k + 1].running_qty < resp.trace[k].running_qty

\* C7 (P2): an outflow of the whole positive running quantity leaves
\* running_qty = 0, and leaves of running_value no more than the rounding
\* of the average cost lets through (10^(2 - DecPrec) of the value before);
\* when it follows immediately on the single inflow (q, c) it matches, it
\* leaves running_value = 0 exactly.
FullOutflowEmptiesStock ==
    \A k \in 1..Len(movements) :
        LET before == resp.trace[k]
            after  == resp.trace[k + 1]
        IN  /\ movements[k].movement_type \notin InflowTypes
            /\ before.running_qty > 0
            /\ movements[k].quantity = before.running_qty
            => /\ after.running_qty = 0
               /\ ~Less([m |-> Abs(before.running_value.m),
                         e |-> before.running_value.e],
                        [m |-> Abs(after.running_value.m),
                         e |-> after.running_value.e + DecPrec - 2])
               /\ (k = 2 /\ movements[1].movement_type \in InflowTypes) =>
                      after.running_value = Zero

\* The statement of C7 without the tolerance: every outflow of the whole
\* positive running quantity leaves running_qty = 0 and running_value = 0.
FullOutflowLeavesNoValue ==
    \A k \in 1..Len(movements) :
        /\ movements[k].movement_type \notin InflowTypes
        /\ resp.trace[k].running_qty > 0
        /\ movements[k].quantity = resp.trace[k].running_qty
        => /\ resp.trace[k + 1].running_qty = 0
           /\ resp.trace[k + 1].running_value = Zero

\* Two inflows at different costs, then an outflow of all the stock that
\* leaves a rounding residue; and before that, an inflow matched exactly.
FullOutflowAfterTwoInflows ==
    /\ Len(movements) = 3
    /\ movements[1].movement_type \in InflowTypes
    /\ movements[2].movement_type \in InflowTypes
    /\ movements[1].unit_cost # movements[2].unit_cost
    /\ movements[3].movement_type = "issue"
    /\ resp.trace[3].running_qty > 0
    /\ movements[3].quantity = resp.trace[3].running_qty
    /\ resp.trace[4].running_qty = 0
    /\ resp.trace[4].running_value # Zero

\* C8 (P3): swapping two inflows of different unit cost changes the average
\* cost of the snapshot only in a replay that also holds a movement of the
\* outflow branch; in a replay of inflows alone the average is the same in
\* either order.
SwapOfInflowsNeedsOutflowToMatter ==
    \A i, j \in 1..Len(movements) :
        /\ i < j
        /\ movements[i].movement_type \in InflowTypes
        /\ movements[j].movement_type \in InflowTypes
        /\ movements[i].unit_cost # movements[j].unit_cost
        /\ CostingSnapshot(ReplayAll([movements EXCEPT ![i] = movements[j],
                                                       ![j] = movements[i]])).average_cost
               # CostingSnapshot(ReplayAll(movements)).average_cost
        => \E k \in 1..Len(movements) :
               movements[k].movement_type \notin InflowTypes

\* The statement of C8 as it stands: swapping two inflows of different unit
\* cost always changes the average cost of the snapshot.
SwapOfInflowsChangesAverage ==
    \A i, j \in 1..Len(movements) :
        /\ i < j
        /\ movements[i].movement_type \in InflowTypes
        /\ movements[j].movement_type \in InflowTypes
        /\ movements[i].unit_cost # movements[j].unit_cost
        => CostingSnapshot(ReplayAll([movements EXCEPT ![i] = movements[j],
                                                       ![j] = movements[i]])).average_cost
               # CostingSnapshot(ReplayAll(movements)).average_cost

\* Two inflows of different unit cost around an outflow, whose swap changes
\* the average cost.
SwapAroundOutflowChangesAverage ==
    /\ Len(movements) = 3
    /\ movements[1].movement_type \in InflowTypes
    /\ movements[2].movement_type = "issue"
    /\ movements[3].movement_type \in InflowTypes
    /\ movements[1].quantity > 0 /\ movements[2].quantity > 0
    /\ movements[3].quantity > 0
    /\ movements[1].unit_cost # movements[3].unit_cost
    /\ CostingSnapshot(ReplayAll(<<movements[3], movements[2],
                                   movements[1]>>)).average_cost
           # CostingSnapshot(ReplayAll(movements)).average_cost

(***************************************************************************)
(* Determinism and frame of the read models.                               *)
(***************************************************************************)
\* C9 (P4): a valuation that follows a valuation of the same tenant and
\* cutoff on an unchanged ledger returns the same entries and the same
\* total, also when movements of a product share a movement_date.
ValuationRepeatable ==
    [][(/\ resp.kind = "valuation"
        /\ resp'.kind = "valuation"
        /\ resp'.tenant = resp.tenant
        /\ resp'.valuation_date = resp.valuation_date
        /\ movements' = movements
        /\ products' = products)
       => /\ resp'.details = resp.details
          /\ resp'.total_inventory_value = resp.total_inventory_value]_vars

\* C10: a step that returns a valuation report, an ABC analysis or reorder
\* suggestions leaves the movement ledger, the products and the purchase
\* orders as they were, whatever other requests come before and after it.
ReadsLeaveDataUnchanged ==
    [][resp'.kind \in {"valuation", "abc", "reorder"}
       => UNCHANGED <<movements, products, purchase_orders>>]_vars

\* An analysis returned after one purchase order was received into the
\* ledger and the other cancelled.
AnalysisAfterOrdersSettled ==
    /\ resp.kind \in {"abc", "reorder"}
    /\ purchase_orders[1].status = "cancelled"
    /\ purchase_orders[2].status = "received"
    /\ Len(movements) = 2


\* The cumulative share, in percent, of the first k entries of an ABC list in
\* the total of the valuation report it was made from.
CumulativeShare(list, k, total) ==
    CumulativePct(SumFloats([j \in 1..k |-> list[j].inventory_value]), total)

\* C11: an ABC analysis that classifies has one entry per product of the
\* valuation report, carrying that product's total_value, in descending
\* order of value, classed A while the cumulative share of the total is at
\* most 80, B while it is at most 95 and C beyond.
AbcListsProductsByValue ==
    (resp.kind = "abc" /\ resp.performed) =>
        LET list    == resp.abc_analysis
            details == resp.valuation.details
            total   == resp.valuation.total_inventory_value
        IN  /\ Len(list) = Cardinality(DOMAIN details)
            /\ {list[k].sku : k \in DOMAIN list} = DOMAIN details
            /\ \A k \in DOMAIN list :
                   list[k].inventory_value = details[list[k].sku].total_value
            /\ \A j, k \in DOMAIN list :
                   j < k => ~Less(list[j].inventory_value, list[k].inventory_value)
            /\ \A k \in DOMAIN list :
                   list[k].classification =
                       Classification(CumulativeShare(list, k, total))

\* C12 (P5): when the valuation report has products and a non-zero total,
\* every product of the report is in exactly one entry of the ABC list, and
\* the item counts of classification_summary add up to the number of
\* products of the report.
AbcSummaryCountsEveryProduct ==
    (/\ resp.kind = "abc"
     /\ DOMAIN resp.valuation.details # {}
     /\ resp.valuation.total_inventory_value # Zero) =>
        /\ \A sku \in DOMAIN resp.valuation.details :
               Cardinality({k \in DOMAIN resp.abc_analysis :
                               resp.abc_analysis[k].sku = sku}) = 1
        /\ resp.classification_summary["A"].items
             + resp.classification_summary["B"].items
             + resp.classification_summary["C"].items
               = Cardinality(DOMAIN resp.valuation.details)

\* C13: when the total inventory value is zero, abc_analysis answers that no
\* classification was performed: the list is empty, every band counts no
\* item and no value, and the total is reported as 0.
ZeroTotalNotClassified ==
    (resp.kind = "abc" /\ resp.valuation.total_inventory_value = Zero) =>
        /\ ~resp.performed
        /\ resp.abc_analysis = <<>>
        /\ resp.total_value = Zero
        /\ \A cls \in {"A", "B", "C"} :
               resp.classification_summary[cls] = [items |-> 0, value |-> Zero]

\* An analysis of a stocked ledger whose product values, 2 and -2, cancel
\* out in the total.
ZeroTotalOfCancellingValues ==
    /\ resp.kind = "abc"
    /\ resp.valuation.total_inventory_value = Zero
    /\ Len(movements) = 3
    /\ \E sku \in DOMAIN resp.valuation.details :
           Less(Zero, resp.valuation.details[sku].total_value)


\* The on-hand quantities the costing engine can report for a product with
\* the cutoff at today, one per order in which the store may return the
\* rows.
OnHandToday(tenant, product) ==
    {CostingSnapshot(ReplayAll(RowsOf(order))).current_qty :
        order \in RowOrders(MovementsUpTo(tenant, product, DateOf(now)))}

\* C14: the current_stock that generate_reorder_suggestions uses for a
\* product is the on-hand quantity the costing engine computes for it with
\* the cutoff at now, and it is the current_stock the suggestion reports.
ReorderStockIsOnHandQuantity ==
    resp.kind = "reorder" =>
        \A product \in ActiveProducts(resp.tenant) :
            /\ OnHandToday(resp.tenant, product)
                 = {FloatOf(OfInt(ProductStock(resp.tenant, product)))}
            /\ \A k \in DOMAIN resp.suggestions :
                   resp.suggestions[k].product_sku = products[product].sku
                       => {resp.suggestions[k].current_stock}
                            = OnHandToday(resp.tenant, product)


\* The positions of a product in a list of suggestions.
ListedAt(suggestions, product) ==
    {k \in DOMAIN suggestions : suggestions[k].product_sku = products[product].sku}

\* C15: reorder suggestions hold a suggestion for an active product exactly
\* when its current_stock is at or below its reorder_point, one per such
\* product, with shortage = reorder_point - current_stock,
\* suggested_order_qty = max(shortage, 2 * reorder_point) and
\* estimated_cost = suggested_order_qty * standard_cost.
SuggestionIffAtOrBelowReorderPoint ==
    resp.kind = "reorder" =>
        \A product \in ActiveProducts(resp.tenant) :
            LET current_stock == ProductStock(resp.tenant, product)
                reorder_point == products[product].reorder_point
                shortage      == reorder_point - current_stock
                suggested_qty == IF shortage >= 2 * reorder_point
                                 THEN shortage ELSE 2 * reorder_point
                listed        == ListedAt(resp.suggestions, product)
            IN  IF current_stock > reorder_point THEN listed = {}
                ELSE /\ Cardinality(listed) = 1
                     /\ \A k \in listed :
                            /\ resp.suggestions[k].current_stock
                                 = FloatOf(OfInt(current_stock))
                            /\ resp.suggestions[k].shortage = FloatOf(OfInt(shortage))
                            /\ resp.suggestions[k].suggested_order_qty
                                 = FloatOf(OfInt(suggested_qty))
                            /\ resp.suggestions[k].estimated_cost
                                 = FloatOf(OfInt(suggested_qty
                                                   * products[product].standard_cost))

\* Suggestions that list S1, short of 3 against a reorder point of 1, and
\* leave out S2, stocked above its reorder point.
SuggestionForShortageAboveTwiceReorderPoint ==
    /\ resp.kind = "reorder"
    /\ 2 \in ActiveProducts(resp.tenant)
    /\ ProductStock(resp.tenant, 1) = -2
    /\ ProductStock(resp.tenant, 2) > products[2].reorder_point
    /\ Len(resp.suggestions) = 1
    /\ resp.suggestions[1].suggested_order_qty = OfInt(3)

\* C16 (P6): a product whose current_stock equals its reorder_point is
\* suggested, with urgency MEDIUM when that stock is positive and HIGH when
\* it is zero or negative; a product with current_stock 0 and a reorder
\* point of 0 or more is suggested with urgency HIGH.
UrgencyAtThresholds ==
    resp.kind = "reorder" =>
        \A product \in ActiveProducts(resp.tenant) :
            LET current_stock == ProductStock(resp.tenant, product)
                reorder_point == products[product].reorder_point
                listed        == ListedAt(resp.suggestions, product)
            IN  /\ current_stock = reorder_point =>
                       /\ listed # {}
                       /\ \A k \in listed :
                              resp.suggestions[k].urgency =
                                  IF current_stock > 0 THEN "MEDIUM" ELSE "HIGH"
                /\ (current_stock = 0 /\ reorder_point >= 0) =>
                       /\ listed # {}
                       /\ \A k \in listed : resp.suggestions[k].urgency = "HIGH"

\* Suggestions made when S1 was moved to a stock of 1, its reorder point,
\* and S2 was moved and stands at 0, its reorder point.
BothProductsAtReorderPoint ==
    /\ resp.kind = "reorder"
    /\ 2 \in ActiveProducts(resp.tenant)
    /\ \A product \in {1, 2} :
           /\ ProductStock(resp.tenant, product) = products[product].reorder_point
           /\ \E i \in DOMAIN movements : movements[i].product = product
    /\ Len(resp.suggestions) = 2

\* C16 (P6) as stated: every product with current_stock equal to its
\* reorder_point is suggested with urgency MEDIUM, and every product with
\* current_stock 0 has urgency HIGH, whatever the reorder point.
ThresholdStockIsMedium ==
    resp.kind = "reorder" =>
        \A product \in ActiveProducts(resp.tenant) :
            LET current_stock == ProductStock(resp.tenant, product)
                listed        == ListedAt(resp.suggestions, product)
            IN  /\ current_stock = products[product].reorder_point =>
                       /\ listed # {}
                       /\ \A k \in listed : resp.suggestions[k].urgency = "MEDIUM"
                /\ current_stock = 0 =>
                       /\ listed # {}
                       /\ \A k \in listed : resp.suggestions[k].urgency = "HIGH"

\* |shortage| of a suggestion is at least that of another.
ShortageAtLeast(x, y) ==
    ~Less([m |-> Abs(x.shortage.m), e |-> x.shortage.e],
          [m |-> Abs(y.shortage.m), e |-> y.shortage.e])

\* C17: in the list of reorder suggestions every HIGH suggestion comes
\* before every MEDIUM one, and suggestions of the same urgency come by
\* descending magnitude of shortage.
HighFirstThenByShortage ==
    resp.kind = "reorder" =>
        \A j, k \in DOMAIN resp.suggestions :
            j < k =>
                /\ ~(resp.suggestions[j].urgency = "MEDIUM"
                       /\ resp.suggestions[k].urgency = "HIGH")
                /\ resp.suggestions[j].urgency = resp.suggestions[k].urgency
                       => ShortageAtLeast(resp.suggestions[j], resp.suggestions[k])

\* Suggestions in which S2, HIGH, was moved ahead of S1, MEDIUM, which the
\* loop over the products met first.
HighSuggestionMovedAhead ==
    /\ resp.kind = "reorder"
    /\ Len(resp.suggestions) = 2
    /\ resp.suggestions[1].product_sku = "S2"
    /\ resp.suggestions[1].urgency = "HIGH"
    /\ resp.suggestions[2].product_sku = "S1"
    /\ resp.suggestions[2].urgency = "MEDIUM"


\* The movement types the workflow callers hand to generate_movement_number.
CallerTypes == {"TRANSFER", "ADJ", "PO-RECV", "PROD"}

\* C18: after any sequence of transfers, adjustments and purchase-order
\* receipts, the number generate_movement_number returns to a caller is used
\* by no movement of the tenant, as it is and with the -OUT and -IN that
\* stock_transfer appends, and no request fails on a number already in use
\* (a second stock_transfer in the month succeeds like the first).
GeneratedNumbersAreFree ==
    /\ \A tenant \in RequestTenants, movement_type \in CallerTypes :
           LET number == GenerateMovementNumber(movements, tenant, movement_type)
           IN  /\ ~NumberTaken(movements, tenant, number)
               /\ ~NumberTaken(movements, tenant, WithSuffix(number, "OUT"))
               /\ ~NumberTaken(movements, tenant, WithSuffix(number, "IN"))
    /\ resp # Status(500)


\* C19: in the replay, a movement of type receipt, production_receipt,
\* transfer_in or adjustment sets running_qty to running_qty + quantity and
\* running_value to running_value + quantity * unit_cost.
InflowAddsQuantityAndCost ==
    \A k \in 1..Len(movements) :
        movements[k].movement_type
            \in {"receipt", "production_receipt", "transfer_in", "adjustment"}
        => /\ resp.trace[k + 1].running_qty
                = resp.trace[k].running_qty + movements[k].quantity
           /\ resp.trace[k + 1].running_value
                = Add(resp.trace[k].running_value,
                      Mul(OfInt(movements[k].quantity),
                          OfInt(movements[k].unit_cost), DecPrec),
                      DecPrec)

\* A production receipt and a transfer in at different costs, then an
\* adjustment that writes one unit down.
InflowsOfThreeTypes ==
    /\ Len(movements) = 3
    /\ movements[1].movement_type = "production_receipt"
    /\ movements[2].movement_type = "transfer_in"
    /\ movements[1].unit_cost # movements[2].unit_cost
    /\ movements[3].movement_type = "adjustment"
    /\ movements[3].quantity = -1
    /\ resp.trace[4].running_qty = resp.trace[3].running_qty - 1
    /\ resp.trace[4].running_qty > 0

\* The outflow steps of a replay that the running quantity covers.
CoveredOutflows ==
    {k \in 1..Len(movements) :
        /\ movements[k].movement_type \in {"issue", "transfer_out", "production_issue"}
        /\ resp.trace[k].running_qty >= movements[k].quantity}

\* C20: in the replay, an outflow (issue, transfer_out, production_issue)
\* that the running quantity covers removes quantity from running_qty and
\* quantity times the average cost before it from running_value, that
\* average being running_value / running_qty while running_qty > 0 and 0
\* otherwise; after an outflow of a positive quantity that leaves stock, the
\* average cost differs from the one before by no more than rounding lets
\* through (times the quantity left, 10^(2 - DecPrec) of the value before).
CoveredOutflowRemovesAtAverageCost ==
    \A k \in CoveredOutflows :
        LET before == resp.trace[k]
            after  == resp.trace[k + 1]
            drift  == Mul(Sub(AverageCost(after), AverageCost(before), DecPrec),
                          OfInt(after.running_qty), DecPrec)
        IN  /\ after.running_qty = before.running_qty - movements[k].quantity
            /\ after.running_value
                 = Sub(before.running_value,
                       Mul(OfInt(movements[k].quantity),
                           IF before.running_qty > 0
                           THEN Div(before.running_value,
                                    OfInt(before.running_qty), DecPrec)
                           ELSE Zero,
                           DecPrec),
                       DecPrec)
            /\ (movements[k].quantity > 0 /\ after.running_qty > 0) =>
                   ~Less([m |-> Abs(before.running_value.m),
                          e |-> before.running_value.e + 2 - DecPrec],
                         [m |-> Abs(drift.m), e |-> drift.e])

\* Two inflows at different costs, then a transfer out of part of the stock
\* after which the average cost is not the one before.
PartialOutflowShiftsAverage ==
    /\ Len(movements) = 3
    /\ movements[1].movement_type \in InflowTypes
    /\ movements[2].movement_type \in InflowTypes
    /\ movements[3].movement_type = "transfer_out"
    /\ 3 \in CoveredOutflows
    /\ movements[3].quantity > 0
    /\ resp.trace[4].running_qty > 0
    /\ AverageCost(resp.trace[4]) # AverageCost(resp.trace[3])

\* C20 as stated: a covered outflow removes quantity and quantity *
\* (running_value / running_qty), and the average cost of the stock that
\* remains is the same as before the outflow.
CoveredOutflowKeepsAverageCost ==
    \A k \in CoveredOutflows :
        LET before == resp.trace[k]
            after  == resp.trace[k + 1]
        IN  /\ after.running_qty = before.running_qty - movements[k].quantity
            /\ before.running_qty # 0 =>
                   after.running_value
                     = Sub(before.running_value,
                           Mul(OfInt(movements[k].quantity),
                               Div(before.running_value,
                                   OfInt(before.running_qty), DecPrec),
                               DecPrec),
                           DecPrec)
            /\ after.running_qty > 0 =>
                   AverageCost(after) = AverageCost(before)


\* C21: in the replay, an outflow (issue, transfer_out, production_issue)
\* whose quantity exceeds the running quantity at that point leaves
\* running_qty and running_value as they were, and the loop goes on: every
\* movement of the replay has its step.
UncoveredOutflowIsSkipped ==
    /\ Len(resp.trace) = Len(movements) + 1
    /\ \A k \in 1..Len(movements) :
           (/\ movements[k].movement_type
                 \in {"issue", "transfer_out", "production_issue"}
            /\ movements[k].quantity > resp.trace[k].running_qty)
           => resp.trace[k + 1] = resp.trace[k]

\* An issue of 2 from a stock of 1 is skipped, and the receipt after it is
\* taken in.
SkippedOutflowThenInflow ==
    /\ Len(movements) = 3
    /\ movements[1].movement_type \in InflowTypes
    /\ resp.trace[2].running_qty = 1
    /\ movements[2].movement_type = "issue"
    /\ movements[2].quantity = 2
    /\ resp.trace[3] = resp.trace[2]
    /\ movements[3].movement_type = "receipt"
    /\ resp.trace[4].running_qty = 1 + movements[3].quantity


\* The movements of a product, of any date.
MovementsOf(tenant, product) ==
    {i \in 1..Len(movements) :
        movements[i].tenant = tenant /\ movements[i].product = product}

\* The on-hand quantities the replay of the rows ids can end with.
OnHandAfter(ids) ==
    {ReplayAll(RowsOf(order)).running_qty : order \in RowOrders(ids)}

\* C22: in the replay of a product's movements as the producers stored
\* them, no movement of an outflow type (issue, transfer_out,
\* production_issue) increases running_qty or running_value; and the two
\* rows of a stock_transfer together leave the product's on-hand quantity
\* as it is without them.
OutflowTypesNeverAddStock ==
    \A tenant \in RequestTenants :
        \A product \in TenantProducts(tenant) :
            LET ids == MovementsOf(tenant, product)
            IN  /\ \A order \in RowOrders(ids) :
                       \A k \in DOMAIN order :
                           LET rows   == RowsOf(order)
                               before == ReplayAll(SubSeq(rows, 1, k - 1))
                               after  == ReplayAll(SubSeq(rows, 1, k))
                           IN  rows[k].movement_type \in OutgoingTypes =>
                                   /\ after.running_qty <= before.running_qty
                                   /\ ~Less(before.running_value, after.running_value)
                /\ \A i \in ids :
                       (/\ i + 1 \in ids
                        /\ movements[i].movement_type = "transfer_out"
                        /\ movements[i + 1].movement_type = "transfer_in"
                        /\ movements[i + 1].reference_doc = movements[i].reference_doc)
                       => OnHandAfter(ids) = OnHandAfter(ids \ {i, i + 1})


\* C23: in the replay, a movement whose movement_type is none of the seven
\* recognised types leaves running_qty and running_value as they were.
UnknownTypeIsDropped ==
    \A k \in 1..Len(movements) :
        movements[k].movement_type \notin MovementTypes
            => resp.trace[k + 1] = resp.trace[k]


\* C24: in an ABC analysis that classifies, each entry's cumulative_value_pct
\* is 100 times the sum of the values of this and all earlier entries over
\* the grand total, whatever the non-zero total, and the last entry's is 100.
CumulativePctIsShareOfTotal ==
    (resp.kind = "abc" /\ resp.performed) =>
        LET list == resp.abc_analysis
            cumulative_value(k) ==
                SumFloats([j \in 1..k |-> list[j].inventory_value])
        IN  /\ \A k \in DOMAIN list :
                   list[k].cumulative_value_pct =
                       RoundPlaces(Mul(Div(cumulative_value(k), resp.total_value,
                                           FloatPrec),
                                       OfInt(100), FloatPrec), 2)
            /\ list[Len(list)].cumulative_value_pct = OfInt(100)


\* C25: whenever a tenant's own products and movements are what they were
\* at its last reads, whatever has happened to the data of other tenants
\* since, calculate_inventory_valuation returns for the tenant at every
\* cutoff, and generate_reorder_suggestions returns for it, what they
\* returned then.
ReadsSeeOnlyOwnTenant ==
    (last_reads.read /\ TenantData(last_reads.tenant) = last_reads.data) =>
        /\ \A valuation_date \in Dates :
               ValuationResults(last_reads.tenant, valuation_date) =
                   last_reads.valuations[valuation_date]
        /\ ReorderResult(last_reads.tenant) = last_reads.suggestions

\* Since the tenant's last reads the other tenant has received stock for
\* the tenant's product, of which the tenant holds a receipt of its own; the
\* other tenant's product of the same sku has been edited; the tenant's data
\* are as they were.
OtherTenantWroteSinceLastReads ==
    /\ last_reads.read
    /\ TenantData(last_reads.tenant) = last_reads.data
    /\ \E i \in 1..Len(movements) :
           /\ movements[i].tenant = last_reads.tenant
           /\ movements[i].product = 1
           /\ movements[i].quantity > 0
    /\ \E i \in 1..Len(movements) :
           /\ movements[i].tenant \in OtherTenants
           /\ movements[i].product = 1
           /\ movements[i].quantity > 0
           /\ i > last_reads.ledger_size
    /\ products[3].reorder_point # InitialProducts(TRUE)[3].reorder_point


\* C26: a stock_transfer request, whatever its quantity, leaves the signed
\* sum of the movement quantities of every product and warehouse that was
\* not negative not negative, writes its transfer_out and its transfer_in
\* row or no row at all, and writes no row when it is rejected for
\* insufficient stock.
TransferKeepsStockNonNegative ==
    [][TransferRequests =>
          /\ \A tenant \in RequestTenants, product \in ProductIds,
                warehouse \in Warehouses :
                 WarehouseStock(tenant, product, warehouse) >= 0 =>
                     WarehouseStock(tenant, product, warehouse)' >= 0
          /\ \/ movements' = movements
             \/ /\ Len(movements') = Len(movements) + 2
                /\ SubSeq(movements', 1, Len(movements)) = movements
                /\ movements'[Len(movements) + 1].movement_type = "transfer_out"
                /\ movements'[Len(movements) + 2].movement_type = "transfer_in"
          /\ resp'.status = 400 => movements' = movements]_vars


\* C27: after a quick_stock_adjustment that answers 200, the signed sum of
\* the movement quantities of the product at the warehouse equals the
\* actual_quantity of the request; one adjustment movement has been written
\* when the sum differed from it before, and the ledger is as it was when
\* the sum was equal to it.
AdjustmentSetsStockToActual ==
    [][\A tenant \in RequestTenants, product \in ProductIds,
          warehouse \in Warehouses, actual_quantity \in CountedQuantities :
           (/\ QuickStockAdjustment(tenant, product, warehouse, actual_quantity)
            /\ resp'.status = 200) =>
               /\ OfInt(WarehouseStock(tenant, product, warehouse)') = actual_quantity
               /\ IF OfInt(WarehouseStock(tenant, product, warehouse)) = actual_quantity
                  THEN movements' = movements
                  ELSE /\ Len(movements') = Len(movements) + 1
                       /\ SubSeq(movements', 1, Len(movements)) = movements
                       /\ movements'[Len(movements')].movement_type = "adjustment"]_vars


\* The status changes of a work order the lifecycle allows.
Lifecycle ==
    {<<"planned", "released">>, <<"released", "in_progress">>,
     <<"in_progress", "completed">>}
        \cup {<<status, "cancelled">> : status \in {"planned", "released", "in_progress"}}

\* The production_receipt rows written for a work order.
ProductionReceipts(rows, work_order) ==
    {i \in 1..Len(rows) :
        /\ rows[i].movement_type = "production_receipt"
        /\ rows[i].tenant = work_order.tenant
        /\ rows[i].reference_doc = work_order.wo_number}

\* C28: however the release, start_production, complete_production and
\* cancel requests overlap, the status of a work order changes only along
\* planned, released, in_progress, completed or to cancelled from a status
\* that is not completed, so that completed and cancelled are never left;
\* a work order has at most one production_receipt movement, and one is
\* written only as it goes from in_progress to completed with a
\* quantity_completed above 0.
WorkOrderFollowsLifecycle ==
    [][\A id \in DOMAIN work_orders :
           LET before == work_orders[id]
               after  == work_orders'[id]
           IN  /\ before.status # after.status =>
                      <<before.status, after.status>> \in Lifecycle
               /\ Cardinality(ProductionReceipts(movements', after)) <= 1
               /\ ProductionReceipts(movements', after)
                      # ProductionReceipts(movements, before) =>
                          /\ before.status = "in_progress"
                          /\ after.status = "completed"
                          /\ after.quantity_completed > 0]_vars


\* The status changes of a purchase order the workflow allows.
OrderWorkflow ==
    {<<"draft", "sent">>, <<"sent", "received">>,
     <<"draft", "cancelled">>, <<"sent", "cancelled">>}

\* The receipt rows written for a line of a purchase order.
LineReceipts(rows, po, line) ==
    {i \in 1..Len(rows) :
        /\ rows[i].movement_type = "receipt"
        /\ rows[i].tenant = po.tenant
        /\ rows[i].reference_doc = po.po_number
        /\ rows[i].product = line.product}

\* C29: however the send, receive and cancel requests overlap, the status
\* of a purchase order changes only along draft, sent, received or to
\* cancelled from draft or sent, so that a received order is not cancelled
\* or received again; receipt movements are written only as an order goes
\* from sent to received, one for each of its lines, and an order never
\* has more than one receipt for a line.
PurchaseOrderFollowsWorkflow ==
    [][\A id \in DOMAIN purchase_orders :
           LET before == purchase_orders[id]
               after  == purchase_orders'[id]
               lines  == {before.lines[k] : k \in DOMAIN before.lines}
           IN  /\ before.status # after.status =>
                      <<before.status, after.status>> \in OrderWorkflow
               /\ \A line \in lines :
                      /\ Cardinality(LineReceipts(movements', after, line)) <= 1
                      /\ LineReceipts(movements', after, line)
                             # LineReceipts(movements, before, line) =>
                                 /\ before.status = "sent"
                                 /\ after.status = "received"
               /\ (before.status = "sent" /\ after.status = "received") =>
                      \A line \in lines :
                          Cardinality(LineReceipts(movements', after, line)) = 1]_vars


\* C30: once TenantMiddleware has answered a request, whether with the
\* view's response, with 'Access denied to this tenant' or with the
\* database-error response, the thread's current tenant is unset:
\* get_current_tenant() on the thread returns None until the next request.
TenantUnsetBetweenRequests ==
    /\ \A thread \in Threads : thread_local[thread] = Unset
    /\ resp.kind = "current_tenant" => resp.tenant = NoTenant

=============================================================================
